---- MODULE Spec2Model ----
(***************************************************************************)
(* Model of the ingestion-and-aggregation pipeline of src/app.py:          *)
(*   read_csv_any        the encoding-resilient CSV reader                 *)
(*   load_data           the cached loader (st.cache_data)                 *)
(*   preprocess_fire     region filter, derived fields, incident summaries *)
(*   preprocess_weather  region filter, derived fields, weather summaries  *)
(*   make_daily_merge    daily inner join                                  *)
(*   main                one script run (a Streamlit rerun)                *)
(*                                                                         *)
(* Three specifications share the module:                                  *)
(*   SpecReader    one call of read_csv_any on bounded byte contents       *)
(*   Spec          one script run over bounded incident/weather tables     *)
(*   SpecSession   repeated script runs of one server process              *)
(***************************************************************************)
EXTENDS Integers, Sequences, FiniteSets, TLC

VARIABLES
    \* ---- read_csv_any ----
    readable,     \* whether Path(path).read_bytes() can open and read the file
    fileBytes,    \* the byte content of the file at path
    encodings,    \* the encodings argument
    rpc,          \* position inside read_csv_any
    raw,          \* local raw (line 17)
    encIdx,       \* position of the for loop over encodings (line 18)
    attempts,     \* the candidates whose decode was attempted, in order
    usedFallback, \* whether lines 26-27 were executed
    rResult,      \* the returned table, or NoTable
    rError,       \* the exception that left read_csv_any, or "none"
    \* ---- load_data / main ----
    diskFire,     \* the incident file as read_csv_any parses it
    diskWeather,  \* the weather file as read_csv_any parses it
    cache,        \* st.cache_data's entry for load_data
    pc,           \* position inside main
    fire,         \* main's local fire (line 324)
    weather,      \* main's local weather (line 324)
    fireOut,      \* result of preprocess_fire (line 327)
    weatherOut,   \* result of preprocess_weather (line 328)
    monthly_merge,\* line 331
    daily_merge,  \* line 339
    error,        \* the exception that left main, or "none"
    runs,         \* number of script runs started
    calls,        \* how many times each function body has been executed
    firstLoad     \* the tables the first execution of load_data's body returned

readerVars == <<readable, fileBytes, encodings, rpc, raw, encIdx, attempts,
                usedFallback, rResult, rError>>
mainVars == <<diskFire, diskWeather, cache, pc, fire, weather, fireOut,
              weatherOut, monthly_merge, daily_merge, error, runs, calls,
              firstLoad>>
vars == <<readerVars, mainVars>>

\* ---------------------------------------------------------------------
\* Bounds of the model
\* ---------------------------------------------------------------------
MaxBytes == 5
MaxFireRows == 3
MaxWeatherRows == 2
MaxRuns == 3

RECURSIVE SeqsUpTo(_, _)
SeqsUpTo(S, n) ==
    IF n = 0 THEN {<<>>}
    ELSE LET shorter == SeqsUpTo(S, n - 1)
         IN shorter \cup {Append(s, x) : s \in {t \in shorter : Len(t) = n - 1}, x \in S}

\* =====================================================================
\* 1. read_csv_any
\* =====================================================================

\* The bytes the modelled files are made of: 'a', ',', '\n' and the two
\* high bytes 0xB0 0xA1 (together the CP949/EUC-KR encoding of U+AC00).
BodyBytes == {97, 44, 10, 176, 161}
\* The UTF-8 signature EF BB BF, present or absent at the start of a file.
Signature == <<239, 187, 191>>
FileContents ==
    {pre \o body : pre \in {<<>>, Signature}, body \in SeqsUpTo(BodyBytes, MaxBytes)}

DefaultEncodings == <<"utf-8-sig", "cp949", "euc-kr", "latin1">>
\* The candidate lists a caller passes: the default one, one without the
\* single-byte encoding, one in another order, an unknown codec, none.
EncodingLists ==
    { DefaultEncodings,
      <<"utf-8-sig", "cp949", "euc-kr">>,
      <<"euc-kr", "utf-8">>,
      <<"no-such-codec", "cp949">>,
      <<>> }

DecodeError == [ok |-> FALSE, txt |-> <<>>]
Decoded(t) == [ok |-> TRUE, txt |-> t]

IsCont(b, i) == i <= Len(b) /\ b[i] \in 128..191

\* bytes.decode("utf-8"), strict: code points of the well-formed sequences,
\* a UnicodeDecodeError for anything else.
RECURSIVE Utf8From(_, _, _)
Utf8From(b, i, acc) ==
    IF i > Len(b) THEN Decoded(acc)
    ELSE LET c == b[i] IN
      IF c < 128 THEN Utf8From(b, i + 1, Append(acc, c))
      ELSE IF c \in 194..223 /\ IsCont(b, i + 1)
        THEN Utf8From(b, i + 2, Append(acc, (c - 192) * 64 + (b[i + 1] - 128)))
      ELSE IF c \in 224..239 /\ IsCont(b, i + 1) /\ IsCont(b, i + 2)
              /\ (c = 224 => b[i + 1] >= 160) /\ (c = 237 => b[i + 1] <= 159)
        THEN Utf8From(b, i + 3,
               Append(acc, (c - 224) * 4096 + (b[i + 1] - 128) * 64 + (b[i + 2] - 128)))
      ELSE IF c \in 240..244 /\ IsCont(b, i + 1) /\ IsCont(b, i + 2) /\ IsCont(b, i + 3)
              /\ (c = 240 => b[i + 1] >= 144) /\ (c = 244 => b[i + 1] <= 143)
        THEN Utf8From(b, i + 4,
               Append(acc, (c - 240) * 262144 + (b[i + 1] - 128) * 4096
                           + (b[i + 2] - 128) * 64 + (b[i + 3] - 128)))
      ELSE DecodeError

DecodeUtf8(b) == Utf8From(b, 1, <<>>)

\* bytes.decode("utf-8-sig"): a leading signature is dropped, then UTF-8.
DecodeUtf8Sig(b) ==
    IF Len(b) >= 3 /\ SubSeq(b, 1, 3) = Signature
    THEN Utf8From(b, 4, <<>>)
    ELSE Utf8From(b, 1, <<>>)

\* The rows of the CP949 code table for the lead/trail bytes the modelled
\* files contain: <<lead, trail>> :> code point.
Cp949Table ==
    (<<176, 161>> :> 44032) @@ (<<176, 176>> :> 44057) @@ (<<176, 97>> :> 52923) @@
    (<<161, 161>> :> 12288) @@ (<<161, 176>> :> 8220)  @@ (<<161, 97>> :> 51394) @@
    (<<239, 187>> :> 30308) @@ (<<191, 97>> :> 54457)  @@ (<<191, 176>> :> 50684) @@
    (<<191, 161>> :> 50640)

\* EUC-KR is the part of that table whose trail byte is in A1..FE.
EucKrTable == [p \in {q \in DOMAIN Cp949Table : q[2] >= 161} |-> Cp949Table[p]]

\* bytes.decode of a double-byte codec: ASCII bytes stand for themselves, a
\* high byte needs a trail byte that the table pairs it with.
RECURSIVE DbcsFrom(_, _, _, _)
DbcsFrom(table, b, i, acc) ==
    IF i > Len(b) THEN Decoded(acc)
    ELSE IF b[i] < 128 THEN DbcsFrom(table, b, i + 1, Append(acc, b[i]))
    ELSE IF i + 1 <= Len(b) /\ <<b[i], b[i + 1]>> \in DOMAIN table
      THEN DbcsFrom(table, b, i + 2, Append(acc, table[<<b[i], b[i + 1]>>]))
    ELSE DecodeError

DecodeCp949(b) == DbcsFrom(Cp949Table, b, 1, <<>>)
DecodeEucKr(b) == DbcsFrom(EucKrTable, b, 1, <<>>)

\* bytes.decode("latin1"): every byte is the code point of the same number.
\* errors="ignore" (line 26) changes nothing: no byte is invalid in latin1.
DecodeLatin1(b) == Decoded(b)

\* raw.decode(enc), line 20; an unknown codec name raises LookupError.
Decode(enc, b) ==
    CASE enc = "utf-8-sig" -> DecodeUtf8Sig(b)
      [] enc = "utf-8"     -> DecodeUtf8(b)
      [] enc = "cp949"     -> DecodeCp949(b)
      [] enc = "euc-kr"    -> DecodeEucKr(b)
      [] enc = "latin1"    -> DecodeLatin1(b)
      [] OTHER             -> DecodeError

\* ---- pd.read_csv(io.StringIO(txt)), default arguments (line 21) ----

NoTable == [columns |-> <<>>, width |-> 0, rows |-> <<>>]
ParseOk(t) == [ok |-> TRUE, err |-> "none", table |-> t]
ParseFail(e) == [ok |-> FALSE, err |-> e, table |-> NoTable]

\* The tokenizer skips a signature at the very start of the input.
SkipBom(txt) == IF Len(txt) >= 1 /\ txt[1] = 65279 THEN Tail(txt) ELSE txt

\* txt cut at every occurrence of sep (the pieces may be empty).
RECURSIVE SplitFrom(_, _, _, _, _)
SplitFrom(txt, sep, i, cur, acc) ==
    IF i > Len(txt) THEN Append(acc, cur)
    ELSE IF txt[i] = sep THEN SplitFrom(txt, sep, i + 1, <<>>, Append(acc, cur))
    ELSE SplitFrom(txt, sep, i + 1, Append(cur, txt[i]), acc)

Split(txt, sep) == SplitFrom(txt, sep, 1, <<>>, <<>>)

\* The elements of s at the positions where keep is TRUE, in order.
Compress(s, keep) ==
    LET F[i \in 0..Len(s)] ==
          IF i = 0 THEN <<>>
          ELSE IF keep[i] THEN Append(F[i - 1], s[i]) ELSE F[i - 1]
    IN F[Len(s)]

\* The records of the input: lines ended by '\n', blank lines skipped
\* (skip_blank_lines=True), each cut into fields at ','.
CsvRecords(txt) ==
    LET all == Split(SkipBom(txt), 10)
        lines == Compress(all, [i \in 1..Len(all) |-> all[i] # <<>>])
    IN [i \in 1..Len(lines) |-> Split(lines[i], 44)]

PadTo(fields, w) == fields \o [i \in 1..(w - Len(fields)) |-> <<>>]

\* The C tokenizer: the first record is the header; the first data record
\* may be wider than the header (the extra leading fields become the index);
\* every later record wider than the one before it raises ParserError
\* ("Expected n fields in line k, saw m"); narrower records are padded.
\* No record at all raises EmptyDataError ("No columns to parse from file").
ParseCsv(txt) ==
    LET recs == CsvRecords(txt) IN
    IF Len(recs) = 0 THEN ParseFail("EmptyDataError")
    ELSE LET w == IF Len(recs) >= 2 /\ Len(recs[2]) > Len(recs[1])
                  THEN Len(recs[2]) ELSE Len(recs[1])
         IN IF \E k \in 3..Len(recs) : Len(recs[k]) > w
            THEN ParseFail("ParserError")
            ELSE ParseOk([columns |-> recs[1], width |-> w,
                          rows |-> [k \in 1..(Len(recs) - 1) |-> PadTo(recs[k + 1], w)]])

\* ---- the steps of read_csv_any ----

\* Line 17: raw = Path(path).read_bytes(); an OSError leaves the function.
ReadBytes ==
    /\ rpc = "call"
    /\ IF readable
       THEN /\ raw' = fileBytes
            /\ rpc' = "loop"
            /\ UNCHANGED rError
       ELSE /\ rpc' = "raised"
            /\ rError' = "OSError"
            /\ UNCHANGED raw
    /\ UNCHANGED <<readable, fileBytes, encodings, encIdx, attempts, usedFallback, rResult>>
    /\ UNCHANGED mainVars

\* The mutation of TryCandidate whose success does not leave the loop: the
\* table is kept and the next candidate is tried.
TryCandidateNoReturn ==
    /\ rpc = "loop"
    /\ encIdx <= Len(encodings)
    /\ LET enc == encodings[encIdx]
           dec == Decode(enc, raw)
           par == ParseCsv(dec.txt)
       IN /\ attempts' = Append(attempts, enc)
          /\ encIdx' = encIdx + 1
          /\ rResult' = IF dec.ok /\ par.ok THEN par.table ELSE rResult
          /\ UNCHANGED rpc
    /\ UNCHANGED <<readable, fileBytes, encodings, raw, usedFallback, rError>>
    /\ UNCHANGED mainVars

\* Lines 18-23, one iteration: decode with the candidate and parse; return on
\* success, go on to the next candidate on any exception.
TryCandidate ==
    /\ rpc = "loop"
    /\ encIdx <= Len(encodings)
    /\ LET enc == encodings[encIdx]
           dec == Decode(enc, raw)
           par == ParseCsv(dec.txt)
       IN /\ attempts' = Append(attempts, enc)
          /\ IF dec.ok /\ par.ok
             THEN /\ rResult' = par.table
                  /\ rpc' = "returned"
                  /\ UNCHANGED encIdx
             ELSE /\ encIdx' = encIdx + 1
                  /\ UNCHANGED <<rResult, rpc>>
    /\ UNCHANGED <<readable, fileBytes, encodings, raw, usedFallback, rError>>
    /\ UNCHANGED mainVars

\* Lines 26-27, after the loop ran out of candidates: decode as latin1 with
\* errors="ignore" and parse; an exception of read_csv leaves the function.
Fallback ==
    /\ rpc = "loop"
    /\ encIdx > Len(encodings)
    /\ usedFallback' = TRUE
    /\ LET par == ParseCsv(DecodeLatin1(raw).txt)
       IN IF par.ok
          THEN /\ rResult' = par.table
               /\ rpc' = "returned"
               /\ UNCHANGED rError
          ELSE /\ rError' = par.err
               /\ rpc' = "raised"
               /\ UNCHANGED rResult
    /\ UNCHANGED <<readable, fileBytes, encodings, raw, encIdx, attempts>>
    /\ UNCHANGED mainVars

ReaderIdle ==
    /\ rpc = "call" /\ raw = <<>> /\ encIdx = 1 /\ attempts = <<>>
    /\ usedFallback = FALSE /\ rResult = NoTable /\ rError = "none"

\* =====================================================================
\* 2. DataFrames as read_csv builds them
\* =====================================================================
\* A table is the sequence of its rows, a row a record of its columns.
\* A numeric cell is Num(n) or NaN (an empty field of the file).
Num(n) == [t |-> "int", v |-> n]
NaN == [t |-> "nan", v |-> 0]
IsNaN(c) == c.t = "nan"

\* "SeoulCity" stands for the GRNDS_CTPV_NM value compared on line 43,
\* "Seoul" for the station name compared on line 73.
FireRegion == "SeoulCity"
WeatherStation == "Seoul"

FireRow(reg, yr, mm, ymd, cause, sgg) ==
    [GRNDS_CTPV_NM |-> reg, OCRN_YR |-> yr, OCRN_MM |-> mm, OCRN_YMD |-> ymd,
     IGTN_DMNT_LCLSF_NM |-> cause, GRNDS_SGG_NM |-> sgg]

\* The incident rows the modelled files are made of.
FireRows ==
    { FireRow("SeoulCity", Num(2024), Num(1), Num(20240101), "Electrical", "Jongno"),
      FireRow("SeoulCity", Num(2024), Num(2), Num(20240215), "Careless", "Gangnam"),
      \* year and month columns that disagree with the date column
      FireRow("SeoulCity", Num(2023), Num(12), Num(20240101), "Careless", "Jongno"),
      \* month and date left empty
      FireRow("SeoulCity", Num(2024), NaN, NaN, "Electrical", "Gangnam"),
      \* month 13
      FireRow("SeoulCity", Num(2024), Num(1), Num(20241301), "Careless", "Jongno"),
      \* other region
      FireRow("Busan", Num(2024), Num(2), Num(20240215), "Electrical", "Haeundae"),
      \* other region, date left empty
      FireRow("Busan", Num(2024), Num(1), NaN, "Careless", "Haeundae") }

FireTables == SeqsUpTo(FireRows, MaxFireRows)

DigitChars == <<"0", "1", "2", "3", "4", "5", "6", "7", "8", "9">>
DigitValue(c) == (CHOOSE k \in 1..10 : DigitChars[k] = c) - 1
IsDigit(c) == \E k \in 1..10 : DigitChars[k] = c

\* str(n) of a non-negative integer, as a sequence of characters.
RECURSIVE IntToStr(_)
IntToStr(n) ==
    IF n < 10 THEN <<DigitChars[n + 1]>>
    ELSE Append(IntToStr(n \div 10), DigitChars[(n % 10) + 1])

Pad2(n) == IF n < 10 THEN <<"0">> \o IntToStr(n) ELSE IntToStr(n)

\* The text of a timestamp field of the weather file: "YYYY-MM-DD HH:00".
IsoText(y, m, d, h) ==
    IntToStr(y) \o <<"-">> \o Pad2(m) \o <<"-">> \o Pad2(d) \o <<" ">> \o Pad2(h)
        \o <<":", "0", "0">>

\* Column names: stn is the station-name column, ts the timestamp column,
\* temp / hum / rain the temperature, humidity and precipitation columns.
WeatherRow(stn, ts, temp, hum, rain) ==
    [stn |-> stn, ts |-> ts, temp |-> temp, hum |-> hum, rain |-> rain]

\* The weather rows the modelled files are made of.
WeatherRows ==
    { WeatherRow("Seoul", IsoText(2024, 1, 1, 0), 0, 50, 0),
      \* a second observation of the same day
      WeatherRow("Seoul", IsoText(2024, 1, 1, 12), 4, 60, 3),
      \* other station
      WeatherRow("Busan", IsoText(2024, 2, 15, 0), 7, 40, 1),
      \* timestamp left empty
      WeatherRow("Seoul", <<>>, 2, 55, 0) }

WeatherTables == SeqsUpTo(WeatherRows, MaxWeatherRows)

\* The dtype read_csv infers for a column of integers: int64 when every
\* field is filled, float64 as soon as one is empty (NaN is a float),
\* object for a column without rows.  Row selection keeps the dtype.
ColumnDtype(column) ==
    IF Len(column) = 0 THEN "object"
    ELSE IF \E i \in 1..Len(column) : IsNaN(column[i]) THEN "float64"
    ELSE "int64"

\* Series.astype(str), one element: str(20240101) for int64,
\* str(20240101.0) for float64, "nan" for NaN.
CellStr(dtype, c) ==
    IF IsNaN(c) THEN <<"n", "a", "n">>
    ELSE IF dtype = "float64" THEN IntToStr(c.v) \o <<".", "0">>
    ELSE IntToStr(c.v)

\* Timestamps (datetime64 values); NaT is the missing one.
Timestamp(y, m, d, h) == [y |-> y, m |-> m, d |-> d, h |-> h]
NaT == [y |-> 0, m |-> 0, d |-> 0, h |-> 0]

IsLeap(y) == (y % 4 = 0 /\ y % 100 # 0) \/ y % 400 = 0
DaysInMonth(y, m) ==
    IF m = 2 THEN (IF IsLeap(y) THEN 29 ELSE 28)
    ELSE IF m \in {4, 6, 9, 11} THEN 30 ELSE 31
ValidDate(y, m, d) == m \in 1..12 /\ d \in 1..DaysInMonth(y, m)

Num2(s, i) == DigitValue(s[i]) * 10 + DigitValue(s[i + 1])
Num4(s, i) == Num2(s, i) * 100 + Num2(s, i + 2)
AllDigits(s, from, to) == \A i \in from..to : IsDigit(s[i])

Parsed(ts) == [ok |-> TRUE, ts |-> ts]
ParseRaises == [ok |-> FALSE, ts |-> NaT]

\* pd.to_datetime(..., format="%Y%m%d"), one element (line 47): the empty
\* string and "nan" give NaT; otherwise four year digits, two month digits
\* and two day digits of a calendar date and nothing else, or ValueError.
Strptime(s) ==
    IF s = <<>> \/ s = <<"n", "a", "n">> THEN Parsed(NaT)
    ELSE IF Len(s) = 8 /\ AllDigits(s, 1, 8)
            /\ ValidDate(Num4(s, 1), Num2(s, 5), Num2(s, 7))
         THEN Parsed(Timestamp(Num4(s, 1), Num2(s, 5), Num2(s, 7), 0))
    ELSE ParseRaises

\* pd.to_datetime without a format, one element (line 74), for the text
\* "YYYY-MM-DD HH:MM"; an empty field (NaN) gives NaT.
ParseTimestamp(s) ==
    IF s = <<>> THEN Parsed(NaT)
    ELSE IF Len(s) = 16 /\ AllDigits(s, 1, 4) /\ s[5] = "-" /\ AllDigits(s, 6, 7)
            /\ s[8] = "-" /\ AllDigits(s, 9, 10) /\ s[11] = " " /\ AllDigits(s, 12, 13)
            /\ s[14] = ":" /\ AllDigits(s, 15, 16)
            /\ ValidDate(Num4(s, 1), Num2(s, 6), Num2(s, 9)) /\ Num2(s, 12) < 24
         THEN Parsed(Timestamp(Num4(s, 1), Num2(s, 6), Num2(s, 9), Num2(s, 12)))
    ELSE ParseRaises

\* Series.dt.year / .dt.month: NaN for NaT.
DtYear(ts) == IF ts = NaT THEN NaN ELSE Num(ts.y)
DtMonth(ts) == IF ts = NaT THEN NaN ELSE Num(ts.m)
\* Series.dt.date: the datetime.date of the timestamp, NaT for NaT.
NoDate == [y |-> 0, m |-> 0, d |-> 0]
DtDate(ts) == IF ts = NaT THEN NoDate ELSE [y |-> ts.y, m |-> ts.m, d |-> ts.d]
\* pd.to_datetime of a datetime.date (line 105): midnight of that day.
DateToTimestamp(dt) == IF dt = NoDate THEN NaT ELSE Timestamp(dt.y, dt.m, dt.d, 0)

AddCol(row, name, v) == (name :> v) @@ row

\* =====================================================================
\* 3. groupby, sort_values, merge
\* =====================================================================
\* A group key is a tuple of integers; NA is the key of a row in which a
\* key column is missing (NaN, NaT).
NA == <<>>

\* The text values of the modelled rows in the order Python compares str.
Collation == <<"Careless", "Electrical", "Gangnam", "Haeundae", "Jongno">>
StrKey(name) == <<CHOOSE k \in 1..Len(Collation) : Collation[k] = name>>
CellKey2(a, b) == IF IsNaN(a) \/ IsNaN(b) THEN NA ELSE <<a.v, b.v>>
TimestampKey(ts) == IF ts = NaT THEN NA ELSE <<ts.y, ts.m, ts.d, ts.h>>
DateKey(dt) == IF dt = NoDate THEN NA ELSE <<dt.y, dt.m, dt.d>>

LexLess(a, b) ==
    \E i \in 1..Len(a) : a[i] < b[i] /\ \A j \in 1..(i - 1) : a[j] = b[j]

RECURSIVE SortedSeq(_)
SortedSeq(S) ==
    IF S = {} THEN <<>>
    ELSE LET lo == CHOOSE x \in S : \A y \in S \ {x} : LexLess(x, y)
         IN <<lo>> \o SortedSeq(S \ {lo})

Range(f) == {f[i] : i \in DOMAIN f}

\* DataFrame.groupby(cols), defaults sort=True and dropna=True: one group
\* per distinct key in ascending key order; rows with a missing key are in
\* no group.  members are the positions of the group's rows.
GroupBy(keys) ==
    LET ks == SortedSeq(Range(keys) \ {NA})
    IN [j \in 1..Len(ks) |->
          [key |-> ks[j], members |-> {i \in 1..Len(keys) : keys[i] = ks[j]}]]

\* .size(): the number of rows of a group.
Size(g) == Cardinality(g.members)

RECURSIVE SumOver(_, _)
SumOver(f, S) ==
    IF S = {} THEN 0
    ELSE LET i == CHOOSE x \in S : TRUE IN f[i] + SumOver(f, S \ {i})

\* .agg("mean") of a group, as the fraction num / den; .agg("sum").
Mean(values, members) == [num |-> SumOver(values, members), den |-> Cardinality(members)]
Sum(values, members) == SumOver(values, members)

Arrangements(n) == {p \in [1..n -> 1..n] : \A i, j \in 1..n : p[i] = p[j] => i = j}

IsDescending(rows) == \A i \in 1..(Len(rows) - 1) : rows[i].n >= rows[i + 1].n
IsAscending(rows) == \A i \in 1..(Len(rows) - 1) : rows[i].n <= rows[i + 1].n

\* The mutation of SortValues that leaves out ascending=False.
SortValuesAscending(rows) ==
    {t \in {[i \in 1..Len(rows) |-> rows[p[i]]] : p \in Arrangements(Len(rows))} :
        IsAscending(t)}

\* .sort_values("n", ascending=False) with the default kind="quicksort",
\* which is not a stable sort: the result is some arrangement of the rows
\* in descending order of n; which one, among rows of equal n, depends on
\* the sort routine of the numpy build.  The set of possible results.
SortValues(rows) ==
    {t \in {[i \in 1..Len(rows) |-> rows[p[i]]] : p \in Arrangements(Len(rows))} :
        IsDescending(t)}

RECURSIVE Flatten(_)
Flatten(ss) == IF ss = <<>> THEN <<>> ELSE Head(ss) \o Flatten(Tail(ss))

\* The mutation of How that keeps every row of the left table.
HowLeft == "left"

\* The how argument of both merges (lines 119 and 335).
How == "inner"

\* pd.merge(left, right, left_on / right_on, how): for every left row, in
\* order, one output row per right row with an equal key, holding the
\* columns of both; with how="left" a left row without a match is kept, its
\* right columns missing (rnull is the right row of missing values).
Merge(left, lkeys, right, rkeys, rnull, how) ==
    Flatten([i \in 1..Len(left) |->
        LET hits == Compress([j \in 1..Len(right) |-> j],
                             [j \in 1..Len(right) |-> rkeys[j] = lkeys[i]])
        IN IF hits = <<>> /\ how = "left" THEN <<left[i] @@ rnull>>
           ELSE [k \in 1..Len(hits) |-> left[i] @@ right[hits[k]]]])

\* =====================================================================
\* 4. preprocess_fire, preprocess_weather, make_daily_merge
\* =====================================================================
\* A call works on a store of DataFrame objects: "arg" is the object the
\* caller passed, the other one is the object the function's local names.
\* Derived column names: yr, mon, occurredOn, date are the year, month,
\* occurrence-date and day columns the functions add; fire_count and n are
\* the count columns of the summaries.

Column(tbl, name) == [i \in 1..Len(tbl) |-> tbl[i][name]]

\* obj[name] = values: the column is added to (or replaced in) the object.
AssignCol(store, obj, name, values) ==
    [store EXCEPT ![obj] = [i \in 1..Len(@) |-> AddCol(@[i], name, values[i])]]

\* The mutation of InFireRegion that selects every row.
InFireRegionAny(row) == TRUE

\* The mask of line 43.
InFireRegion(row) == row.GRNDS_CTPV_NM = FireRegion
\* The mask of line 73.
InWeatherStation(row) == row.stn = WeatherStation

\* The mutation of FireLocal in which the local name is bound to the
\* caller's object instead of to a copy of the selection.
FireLocalAliased == "arg"

\* Line 43: seoul names the new object fire[mask].copy().
FireLocal == "seoul"
\* Line 73: w names the new object weather[mask].copy().
WeatherLocal == "w"

\* Lines 43-47.  raised: pd.to_datetime raised ValueError on line 47.
FireDerive(arg) ==
    LET s0 == [arg |-> arg, seoul |-> SelectSeq(arg, InFireRegion)]
        loc == FireLocal
        dtype == ColumnDtype(Column(arg, "OCRN_YMD"))
        s1 == AssignCol(s0, loc, "yr", Column(s0[loc], "OCRN_YR"))
        s2 == AssignCol(s1, loc, "mon", Column(s1[loc], "OCRN_MM"))
        strs == [i \in 1..Len(s2[loc]) |-> CellStr(dtype, s2[loc][i].OCRN_YMD)]
        dates == [i \in 1..Len(strs) |-> Strptime(strs[i])]
    IN IF \E i \in 1..Len(dates) : ~dates[i].ok
       THEN [raised |-> TRUE, arg |-> s2.arg, seoul |-> <<>>]
       ELSE LET s3 == AssignCol(s2, loc, "occurredOn",
                                [i \in 1..Len(dates) |-> dates[i].ts])
            IN [raised |-> FALSE, arg |-> s3.arg, seoul |-> s3[loc]]

\* Line 50: seoul.groupby(["yr", "mon"]).size().reset_index(name=fire_count)
MonthlyFire(seoul) ==
    LET g == GroupBy([i \in 1..Len(seoul) |-> CellKey2(seoul[i].yr, seoul[i].mon)])
    IN [j \in 1..Len(g) |->
          [yr |-> g[j].key[1], mon |-> g[j].key[2], fire_count |-> Size(g[j])]]

\* Lines 54-56: groupby("IGTN_DMNT_LCLSF_NM").size().reset_index(name=n)
CauseGroups(seoul) ==
    LET g == GroupBy([i \in 1..Len(seoul) |-> StrKey(seoul[i].IGTN_DMNT_LCLSF_NM)])
    IN [j \in 1..Len(g) |->
          [IGTN_DMNT_LCLSF_NM |-> Collation[g[j].key[1]], n |-> Size(g[j])]]

\* Lines 62-64: groupby("GRNDS_SGG_NM").size().reset_index(name=n)
RegionGroups(seoul) ==
    LET g == GroupBy([i \in 1..Len(seoul) |-> StrKey(seoul[i].GRNDS_SGG_NM)])
    IN [j \in 1..Len(g) |-> [GRNDS_SGG_NM |-> Collation[g[j].key[1]], n |-> Size(g[j])]]

NoFireOut == [raised |-> FALSE, seoul |-> <<>>, monthly |-> <<>>, cause |-> <<>>,
              region |-> <<>>]

\* The possible results of preprocess_fire(arg), each with the value of the
\* caller's object after the call.
preprocess_fire(arg) ==
    LET d == FireDerive(arg) IN
    IF d.raised
    THEN {[arg |-> d.arg, out |-> [NoFireOut EXCEPT !.raised = TRUE]]}
    ELSE {[arg |-> d.arg,
           out |-> [raised |-> FALSE, seoul |-> d.seoul, monthly |-> MonthlyFire(d.seoul),
                    cause |-> c, region |-> r]] :
            c \in SortValues(CauseGroups(d.seoul)),
            r \in SortValues(RegionGroups(d.seoul))}

\* Lines 73-78.  raised: pd.to_datetime raised on line 74.
WeatherDerive(arg) ==
    LET s0 == [arg |-> arg, w |-> SelectSeq(arg, InWeatherStation)]
        loc == WeatherLocal
        stamps == [i \in 1..Len(s0[loc]) |-> ParseTimestamp(s0[loc][i].ts)]
    IN IF \E i \in 1..Len(stamps) : ~stamps[i].ok
       THEN [raised |-> TRUE, arg |-> s0.arg, w |-> <<>>]
       ELSE LET s1 == AssignCol(s0, loc, "ts", [i \in 1..Len(stamps) |-> stamps[i].ts])
                s2 == AssignCol(s1, loc, "yr",
                                [i \in 1..Len(s1[loc]) |-> DtYear(s1[loc][i].ts)])
                s3 == AssignCol(s2, loc, "mon",
                                [i \in 1..Len(s2[loc]) |-> DtMonth(s2[loc][i].ts)])
                s4 == AssignCol(s3, loc, "date",
                                [i \in 1..Len(s3[loc]) |-> DtDate(s3[loc][i].ts)])
            IN [raised |-> FALSE, arg |-> s4.arg, w |-> s4[loc]]

\* Lines 81-91: mean temperature and humidity, summed precipitation per
\* (yr, mon).
MonthlyWeather(w) ==
    LET g == GroupBy([i \in 1..Len(w) |-> CellKey2(w[i].yr, w[i].mon)])
    IN [j \in 1..Len(g) |->
          [yr |-> g[j].key[1], mon |-> g[j].key[2],
           temp |-> Mean(Column(w, "temp"), g[j].members),
           hum |-> Mean(Column(w, "hum"), g[j].members),
           rain |-> Sum(Column(w, "rain"), g[j].members)]]

\* Lines 94-105: the same per date, the date then converted to a timestamp.
DailyWeather(w) ==
    LET g == GroupBy([i \in 1..Len(w) |-> DateKey(w[i].date)])
    IN [j \in 1..Len(g) |->
          [date |-> DateToTimestamp([y |-> g[j].key[1], m |-> g[j].key[2],
                                     d |-> g[j].key[3]]),
           temp |-> Mean(Column(w, "temp"), g[j].members),
           hum |-> Mean(Column(w, "hum"), g[j].members),
           rain |-> Sum(Column(w, "rain"), g[j].members)]]

NoWeatherOut == [raised |-> FALSE, w |-> <<>>, monthly |-> <<>>, daily |-> <<>>]

\* preprocess_weather(arg), with the value of the caller's object after it.
preprocess_weather(arg) ==
    LET d == WeatherDerive(arg) IN
    IF d.raised
    THEN [arg |-> d.arg, out |-> [NoWeatherOut EXCEPT !.raised = TRUE]]
    ELSE [arg |-> d.arg,
          out |-> [raised |-> FALSE, w |-> d.w, monthly |-> MonthlyWeather(d.w),
                   daily |-> DailyWeather(d.w)]]

\* Line 112: seoul_fire.groupby("occurredOn").size().reset_index(name=fire_count)
DailyFire(seoul_fire) ==
    LET g == GroupBy([i \in 1..Len(seoul_fire) |-> TimestampKey(seoul_fire[i].occurredOn)])
    IN [j \in 1..Len(g) |->
          [occurredOn |-> Timestamp(g[j].key[1], g[j].key[2], g[j].key[3], g[j].key[4]),
           fire_count |-> Size(g[j])]]

\* Lines 110-121.
make_daily_merge(seoul_fire, daily_weather) ==
    LET daily_fire == DailyFire(seoul_fire)
    IN Merge(daily_fire,
             [i \in 1..Len(daily_fire) |-> TimestampKey(daily_fire[i].occurredOn)],
             daily_weather,
             [i \in 1..Len(daily_weather) |-> TimestampKey(daily_weather[i].date)],
             [date |-> NaT, temp |-> NaN, hum |-> NaN, rain |-> NaN],
             How)

\* Lines 331-336: pd.merge(monthly_fire, monthly_weather, on=[yr, mon]).
MergeMonthly(monthly_fire, monthly_weather) ==
    Merge(monthly_fire,
          [i \in 1..Len(monthly_fire) |-> <<monthly_fire[i].yr, monthly_fire[i].mon>>],
          monthly_weather,
          [i \in 1..Len(monthly_weather) |-> <<monthly_weather[i].yr, monthly_weather[i].mon>>],
          [temp |-> NaN, hum |-> NaN, rain |-> NaN],
          How)

\* =====================================================================
\* 5. load_data and main
\* =====================================================================
NoCache == [filled |-> FALSE, fire |-> <<>>, weather |-> <<>>]
NoCalls == [load_data |-> 0, preprocess_fire |-> 0, preprocess_weather |-> 0,
            merge_monthly |-> 0, make_daily_merge |-> 0]

\* The mutation of CacheHit without the decorator: every call runs the body.
CacheHitNever(c) == FALSE

\* Line 30, @st.cache_data: load_data takes no argument, so its cache has
\* one entry; once the body has returned, every later call is a hit.
CacheHit(c) == c.filled

MainLocalsFresh ==
    /\ fire' = <<>> /\ weather' = <<>>
    /\ fireOut' = NoFireOut /\ weatherOut' = NoWeatherOut
    /\ monthly_merge' = <<>> /\ daily_merge' = <<>>
    /\ error' = "none"

\* Lines 316-322: the first script run of the process starts.
StartRun ==
    /\ pc = "idle"
    /\ runs = 0
    /\ pc' = "load"
    /\ runs' = 1
    /\ UNCHANGED <<diskFire, diskWeather, cache, fire, weather, fireOut, weatherOut,
                   monthly_merge, daily_merge, error, calls, firstLoad>>
    /\ UNCHANGED readerVars

\* A Streamlit rerun: main is executed again from the top, in the same
\* process, with fresh locals.
Rerun ==
    /\ pc \in {"done", "failed"}
    /\ runs < MaxRuns
    /\ pc' = "load"
    /\ runs' = runs + 1
    /\ MainLocalsFresh
    /\ UNCHANGED <<diskFire, diskWeather, cache, calls, firstLoad>>
    /\ UNCHANGED readerVars

\* The files are rewritten on disk while the process runs.
FileChange ==
    /\ \E f \in {t \in FireTables : Len(t) <= 1},
          w \in {t \in WeatherTables : Len(t) <= 1} :
         /\ <<f, w>> # <<diskFire, diskWeather>>
         /\ diskFire' = f
         /\ diskWeather' = w
    /\ UNCHANGED <<cache, pc, fire, weather, fireOut, weatherOut, monthly_merge,
                   daily_merge, error, runs, calls, firstLoad>>
    /\ UNCHANGED readerVars

\* Line 324 with lines 30-35: on a miss the body reads the files and the
\* result is stored; on a hit the stored tables are returned and the body
\* is not executed.  (The population table is read and never used.)
LoadData ==
    /\ pc = "load"
    /\ IF CacheHit(cache)
       THEN /\ fire' = cache.fire
            /\ weather' = cache.weather
            /\ UNCHANGED <<cache, calls, firstLoad>>
       ELSE /\ fire' = diskFire
            /\ weather' = diskWeather
            /\ cache' = [filled |-> TRUE, fire |-> diskFire, weather |-> diskWeather]
            /\ calls' = [calls EXCEPT !.load_data = @ + 1]
            /\ firstLoad' = IF firstLoad.filled THEN firstLoad
                            ELSE [filled |-> TRUE, fire |-> diskFire,
                                  weather |-> diskWeather]
    /\ pc' = "fire"
    /\ UNCHANGED <<diskFire, diskWeather, fireOut, weatherOut, monthly_merge,
                   daily_merge, error, runs>>
    /\ UNCHANGED readerVars

\* Line 327.  An exception of preprocess_fire leaves main: nothing is bound.
PreprocessFire ==
    /\ pc = "fire"
    /\ \E res \in preprocess_fire(fire) :
         /\ fire' = res.arg
         /\ IF res.out.raised
            THEN /\ pc' = "failed"
                 /\ error' = "ValueError"
                 /\ UNCHANGED fireOut
            ELSE /\ pc' = "weather"
                 /\ fireOut' = res.out
                 /\ UNCHANGED error
    /\ calls' = [calls EXCEPT !.preprocess_fire = @ + 1]
    /\ UNCHANGED <<diskFire, diskWeather, cache, weather, weatherOut, monthly_merge,
                   daily_merge, runs, firstLoad>>
    /\ UNCHANGED readerVars

\* Line 328.
PreprocessWeather ==
    /\ pc = "weather"
    /\ LET res == preprocess_weather(weather) IN
         /\ weather' = res.arg
         /\ IF res.out.raised
            THEN /\ pc' = "failed"
                 /\ error' = "ValueError"
                 /\ UNCHANGED weatherOut
            ELSE /\ pc' = "monthly"
                 /\ weatherOut' = res.out
                 /\ UNCHANGED error
    /\ calls' = [calls EXCEPT !.preprocess_weather = @ + 1]
    /\ UNCHANGED <<diskFire, diskWeather, cache, fire, fireOut, monthly_merge,
                   daily_merge, runs, firstLoad>>
    /\ UNCHANGED readerVars

\* Lines 331-336.
MonthlyMerge ==
    /\ pc = "monthly"
    /\ monthly_merge' = MergeMonthly(fireOut.monthly, weatherOut.monthly)
    /\ pc' = "daily"
    /\ calls' = [calls EXCEPT !.merge_monthly = @ + 1]
    /\ UNCHANGED <<diskFire, diskWeather, cache, fire, weather, fireOut, weatherOut,
                   daily_merge, error, runs, firstLoad>>
    /\ UNCHANGED readerVars

\* Line 339.
DailyMerge ==
    /\ pc = "daily"
    /\ daily_merge' = make_daily_merge(fireOut.seoul, weatherOut.daily)
    /\ pc' = "render"
    /\ calls' = [calls EXCEPT !.make_daily_merge = @ + 1]
    /\ UNCHANGED <<diskFire, diskWeather, cache, fire, weather, fireOut, weatherOut,
                   monthly_merge, error, runs, firstLoad>>
    /\ UNCHANGED readerVars

\* Lines 341-349: the selected page is drawn from the tables; the run ends.
Render ==
    /\ pc = "render"
    /\ pc' = "done"
    /\ UNCHANGED <<diskFire, diskWeather, cache, fire, weather, fireOut, weatherOut,
                   monthly_merge, daily_merge, error, runs, calls, firstLoad>>
    /\ UNCHANGED readerVars

MainIdle ==
    /\ cache = NoCache /\ pc = "idle"
    /\ fire = <<>> /\ weather = <<>>
    /\ fireOut = NoFireOut /\ weatherOut = NoWeatherOut
    /\ monthly_merge = <<>> /\ daily_merge = <<>>
    /\ error = "none" /\ runs = 0 /\ calls = NoCalls /\ firstLoad = NoCache

\* =====================================================================
\* 6. Specifications
\* =====================================================================

\* One call read_csv_any(path, encodings).
InitReader ==
    /\ encodings \in EncodingLists
    /\ \/ readable = TRUE /\ fileBytes \in FileContents
       \/ readable = FALSE /\ fileBytes = <<>>
    /\ ReaderIdle
    /\ diskFire = <<>> /\ diskWeather = <<>>
    /\ MainIdle

NextReader == ReadBytes \/ TryCandidate \/ Fallback

SpecReader == InitReader /\ [][NextReader]_vars

ReaderUnused ==
    /\ readable = TRUE /\ fileBytes = <<>> /\ encodings = DefaultEncodings
    /\ ReaderIdle

\* One script run of main over the files' tables.
Init ==
    /\ diskFire \in FireTables
    /\ diskWeather \in WeatherTables
    /\ MainIdle
    /\ ReaderUnused

Next ==
    \/ StartRun \/ LoadData \/ PreprocessFire \/ PreprocessWeather
    \/ MonthlyMerge \/ DailyMerge \/ Render

Spec == Init /\ [][Next]_vars

\* The script runs of one server process, the files changing meanwhile.
InitSession ==
    /\ diskFire \in {t \in FireTables : Len(t) <= 1}
    /\ diskWeather \in {t \in WeatherTables : Len(t) <= 1}
    /\ MainIdle
    /\ ReaderUnused

NextSession == Next \/ Rerun \/ FileChange

SpecSession == InitSession /\ [][NextSession]_vars

\* =====================================================================
\* 7. Properties
\* =====================================================================

\* ---- read_csv_any (SpecReader) ----

\* Whether candidate k of the argument decodes the file and the decoded
\* text parses.
CandidateWorks(k) ==
    /\ Decode(encodings[k], fileBytes).ok
    /\ ParseCsv(Decode(encodings[k], fileBytes).txt).ok

\* C1: read_csv_any fails only when the file cannot be opened or read: for
\* every content of a readable file and every candidate list the call
\* returns a table.
C1_FailsOnlyOnIOError ==
    rpc = "raised" => (~readable /\ rError = "OSError")

\* C2: the candidates are tried strictly in list order; the table returned
\* is the one of the first candidate that both decodes and parses; no
\* candidate is attempted after that one; the fallback runs only after every
\* candidate has failed.
C2_FirstSuccessInOrder ==
    /\ Len(attempts) <= Len(encodings)
    /\ attempts = SubSeq(encodings, 1, Len(attempts))
    /\ \A k \in 1..(Len(attempts) - 1) : ~CandidateWorks(k)
    /\ usedFallback =>
         /\ attempts = encodings
         /\ \A k \in 1..Len(encodings) : ~CandidateWorks(k)
    /\ (rpc = "returned" /\ ~usedFallback) =>
         /\ attempts # <<>>
         /\ CandidateWorks(Len(attempts))
         /\ rResult = ParseCsv(Decode(encodings[Len(attempts)], fileBytes).txt).table
    /\ (rpc = "returned" /\ usedFallback) =>
         rResult = ParseCsv(fileBytes).table

\* C2 witness: the call returned the table of the second candidate after the
\* first one failed, and a later candidate that would also have worked was
\* never attempted.
C2_Witness ==
    /\ rpc = "returned"
    /\ ~usedFallback
    /\ Len(attempts) = 2
    /\ Len(encodings) > 2
    /\ \E k \in 3..Len(encodings) : CandidateWorks(k)
    /\ rResult.rows # <<>>

\* ---- one script run (Spec) ----

AfterFire == pc \in {"weather", "monthly", "daily", "render", "done"}
AfterWeather == pc \in {"monthly", "daily", "render", "done"}
AfterMonthly == pc \in {"daily", "render", "done"}
AfterDaily == pc \in {"render", "done"}

RECURSIVE SumCounts(_)
SumCounts(rows) ==
    IF rows = <<>> THEN 0 ELSE Head(rows).fire_count + SumCounts(Tail(rows))

\* C4: the counts of the monthly incident summary sum to the number of rows
\* of the region-filtered incident table, rows with a missing year or month
\* included.
C4_MonthlyCountsSumToRows ==
    AfterFire => SumCounts(fireOut.monthly) = Len(fireOut.seoul)

\* C5: in every row preprocess_fire produces, the year and month fields are
\* the year and month of the row's parsed occurrence date.
C5_YearMonthMatchDate ==
    AfterFire =>
        \A i \in 1..Len(fireOut.seoul) :
            /\ fireOut.seoul[i].yr = DtYear(fireOut.seoul[i].occurredOn)
            /\ fireOut.seoul[i].mon = DtMonth(fireOut.seoul[i].occurredOn)

KeySet(rows, a, b) == {<<rows[i][a], rows[i][b]>> : i \in 1..Len(rows)}
ColSet(rows, a) == {rows[i][a] : i \in 1..Len(rows)}

\* C6: the keys of the monthly merge are exactly the (year, month) keys
\* present in both monthly summaries, and the keys of the daily merge are
\* exactly the days present in both daily summaries.
C6_MergedKeysAreIntersection ==
    /\ AfterMonthly =>
         KeySet(monthly_merge, "yr", "mon") =
           KeySet(fireOut.monthly, "yr", "mon") \cap KeySet(weatherOut.monthly, "yr", "mon")
    /\ AfterDaily =>
         /\ \A i \in 1..Len(daily_merge) : daily_merge[i].occurredOn = daily_merge[i].date
         /\ ColSet(daily_merge, "occurredOn") =
              ColSet(DailyFire(fireOut.seoul), "occurredOn") \cap ColSet(weatherOut.daily, "date")

\* C6 witness: a finished run whose merges are not empty although one day
\* with incidents has no weather and one month with incidents has none.
C6_Witness ==
    /\ pc = "done"
    /\ daily_merge # <<>>
    /\ monthly_merge # <<>>
    /\ ColSet(DailyFire(fireOut.seoul), "occurredOn") \ ColSet(weatherOut.daily, "date") # {}
    /\ KeySet(fireOut.monthly, "yr", "mon") \ KeySet(weatherOut.monthly, "yr", "mon") # {}

\* An occurrence-date field that is not eight digits of a calendar date.
BadDateField(c) ==
    \/ IsNaN(c)
    \/ c.v < 10000000
    \/ c.v > 99999999
    \/ ~ValidDate(c.v \div 10000, (c.v \div 100) % 100, c.v % 100)

SomeRegionRowHasBadDate ==
    \E i \in 1..Len(fire) :
        fire[i].GRNDS_CTPV_NM = "SeoulCity" /\ BadDateField(fire[i].OCRN_YMD)

\* C7: preprocess_fire fails with a date parse error whenever a row of the
\* target region has an occurrence date that is not exactly 8 digits or not
\* a calendar date, returning no table; rows of other regions never cause
\* the failure.
C7_FailsExactlyOnBadRegionDate ==
    (AfterFire \/ pc = "failed") =>
        /\ SomeRegionRowHasBadDate => (pc = "failed" /\ fireOut = NoFireOut)
        /\ pc = "failed" => SomeRegionRowHasBadDate

NoFireRowInRegion == \A i \in 1..Len(fire) : fire[i].GRNDS_CTPV_NM # "SeoulCity"
NoWeatherRowInRegion == \A i \in 1..Len(weather) : weather[i].stn # "Seoul"

\* C8: when no row matches the target region every stage completes without
\* raising and yields an empty table: the filtered tables and summaries are
\* empty, and so are the merges.
C8_EmptyRegionYieldsEmptyTables ==
    /\ (NoFireRowInRegion /\ pc \notin {"idle", "load", "fire"}) =>
         /\ pc # "failed"
         /\ error = "none"
         /\ fireOut = [raised |-> FALSE, seoul |-> <<>>, monthly |-> <<>>,
                       cause |-> <<>>, region |-> <<>>]
    /\ (NoWeatherRowInRegion /\ AfterWeather) =>
         weatherOut = [raised |-> FALSE, w |-> <<>>, monthly |-> <<>>, daily |-> <<>>]
    /\ ((NoFireRowInRegion \/ NoWeatherRowInRegion) /\ AfterMonthly) =>
         monthly_merge = <<>>
    /\ ((NoFireRowInRegion \/ NoWeatherRowInRegion) /\ AfterDaily) =>
         daily_merge = <<>>

\* C8 witness: a finished run over an incident file with rows, none of the
\* target region, beside a weather summary that is not empty.
C8_Witness ==
    /\ pc = "done"
    /\ fire # <<>>
    /\ NoFireRowInRegion
    /\ weatherOut.daily # <<>>
    /\ daily_merge = <<>>

FirstSeen(rows, col, name) ==
    CHOOSE i \in 1..Len(rows) :
        /\ rows[i][col] = name
        /\ \A j \in 1..(i - 1) : rows[j][col] # name

FirstSeenTieBreak(summary, rows, col) ==
    \A i, j \in 1..Len(summary) :
        i < j =>
            \/ summary[i].n > summary[j].n
            \/ /\ summary[i].n = summary[j].n
               /\ FirstSeen(rows, col, summary[i][col]) < FirstSeen(rows, col, summary[j][col])

RankingOf(summary, rows, col) ==
    /\ IsDescending(summary)
    /\ ColSet(summary, col) = ColSet(rows, col)
    /\ Cardinality(ColSet(summary, col)) = Len(summary)
    /\ \A i \in 1..Len(summary) :
         summary[i].n = Cardinality({j \in 1..Len(rows) : rows[j][col] = summary[i][col]})

FireColumns ==
    {"GRNDS_CTPV_NM", "OCRN_YR", "OCRN_MM", "OCRN_YMD", "IGTN_DMNT_LCLSF_NM",
     "GRNDS_SGG_NM"}
WeatherColumns == {"stn", "ts", "temp", "hum", "rain"}

\* C10: preprocess_fire, preprocess_weather and make_daily_merge leave the
\* tables passed to them unchanged; the derived columns exist only in the
\* returned tables.
C10_InputsUnchanged ==
    [][ /\ pc = "fire" =>
            /\ fire' = fire
            /\ \A i \in 1..Len(fire') : DOMAIN fire'[i] = FireColumns
            /\ \A i \in 1..Len(fireOut'.seoul) :
                   {"yr", "mon", "occurredOn"} \subseteq DOMAIN fireOut'.seoul[i]
        /\ pc = "weather" =>
            /\ weather' = weather
            /\ \A i \in 1..Len(weather') : DOMAIN weather'[i] = WeatherColumns
            /\ \A i \in 1..Len(weatherOut'.w) :
                   {"yr", "mon", "date"} \subseteq DOMAIN weatherOut'.w[i]
        /\ pc = "daily" => (fireOut' = fireOut /\ weatherOut' = weatherOut)
      ]_vars

\* C10 witness: all three functions have returned, the filtered tables are
\* not empty and the input tables hold rows of another region too.
C10_Witness ==
    /\ pc = "render"
    /\ fireOut.seoul # <<>>
    /\ weatherOut.w # <<>>
    /\ Len(fire) > Len(fireOut.seoul)
    /\ daily_merge # <<>>

\* ---- the script runs of one process (SpecSession) ----

====
